---- MODULE Spec2Model ----
(***************************************************************************)
(* rb::SpscRingBuffer<T, CapacityPow2> (include/ring_buffer/ring_buffer.hpp) *)
(* driven by one producer thread and one consumer thread.                  *)
(*                                                                         *)
(* Every atomic load, every atomic store and every access to a storage     *)
(* slot (construct_at, move, copy, destroy_at) is one step of the thread   *)
(* that performs it; the two threads interleave freely.  The relaxed load  *)
(* of a thread's own counter is taken together with the call, as no other  *)
(* thread writes that counter.  head and tail are std::size_t counters:    *)
(* they are kept modulo 2^WordBits, a scaled-down word.                    *)
(***************************************************************************)
EXTENDS Integers, Sequences, FiniteSets, TLC

\* ------------------------------------------------------------- parameters
\* CapacityPow2 of the buffer under study (tests.cpp uses 8, 4 and 2).
Capacity == 4
\* Mask = CapacityPow2 - 1
Mask == Capacity - 1
\* width of the counters (std::size_t), scaled down
WordBits == 4
\* variant: a counter range that Capacity does not divide
CounterModNotMultiple == 2 ^ WordBits - 2
CounterMod == 2 ^ WordBits
\* number of emplace calls with a fresh value the producer makes
MaxPush == 5
\* largest max_n the consumer passes to pop_bulk
MaxN == 3
\* number of constructions that may fail
MaxFail == 1
\* largest number of arguments the producer passes to emplace_bulk
MaxBatch == 3

Values == 0 .. (MaxPush - 1)
\* a slot (or a destination) that holds no object
NoVal == -1
\* a slot whose object has been moved from and not yet destroyed
MovedFrom == -2
Slots == 0 .. (Capacity - 1)

\* ------------------------------------------------------------ arithmetic
\* unsigned arithmetic of std::size_t
Wrap(x) == x % CounterMod

RECURSIVE BitAnd(_, _)
BitAnd(a, b) ==
    IF a = 0 \/ b = 0 THEN 0
    ELSE (IF a % 2 = 1 /\ b % 2 = 1 THEN 1 ELSE 0) + 2 * BitAnd(a \div 2, b \div 2)

is_power_of_two(x) == x # 0 /\ BitAnd(x, x - 1) = 0

\* idx = (counter & Mask)
SlotIndex(counter) == BitAnd(counter, Mask)

\* emplace: next - tail.load() > Capacity - 1
\* variant: no room at all, every emplace is refused
FullTestNoRoom(next, t) == Wrap(next - t) > 0
FullTestOffByOne(next, t) == Wrap(next - t) > Capacity
FullTestOffByTwo(next, t) == Wrap(next - t) > Capacity + 1
FullTest(next, t) == Wrap(next - t) > Capacity - 1

\* pop, try_pop, peek: tail_loaded == head.load()
EmptyTestNever(t, h) == FALSE
EmptyTest(t, h) == t = h

\* pop_bulk: available, to_pop, first
Available(h, t) == Wrap(h - t)
ToPopIgnoresAvailable(available, max_n) == max_n
ToPop(available, max_n) == IF available < max_n THEN available ELSE max_n
FirstNoSplit(idx, to_pop) == to_pop
First(idx, to_pop) == IF (Capacity - idx) < to_pop THEN Capacity - idx ELSE to_pop

\* ------------------------------------------------------------------ state
VARIABLES
    head,           \* std::atomic<std::size_t> head: next write position
    tail,           \* std::atomic<std::size_t> tail: next read position
    storage,        \* the slots: a value, NoVal (no object) or MovedFrom
    \* producer thread
    p_pc,           \* position of the producer inside emplace
    p_val,          \* the argument of the emplace call in progress
    p_head_loaded,  \* emplace's head_loaded
    p_ret,          \* outcome of the producer's last call
    nextVal,        \* the driver's loop variable i
    nfail,          \* constructions that have failed so far
    p_op,           \* the public operation the producer called last
    p_batch,        \* number of arguments of the producer's emplace_bulk call
    p_order,        \* which operand an observer called by the producer loads first
    p_first,        \* the value of that first load
    p_obs,          \* what the producer's last observer returned (NoVal: none)
    p_saw,          \* the producer's call follows a full() that returned false
    \* consumer thread
    c_pc,           \* position of the consumer inside its operation
    c_op,           \* the public operation the consumer called last
    c_tail_loaded,  \* tail_loaded of the operation in progress
    c_head_loaded,  \* pop_bulk's head_loaded
    c_max_n,        \* pop_bulk's max_n
    c_to_pop,       \* pop_bulk's to_pop
    c_first,        \* pop_bulk's first
    c_i,            \* pop_bulk's loop variable i
    c_out,          \* pop's and peek's out, try_pop's ret (NoVal: not written)
    c_bulk,         \* pop_bulk's out[0 .. MaxN-1] (NoVal: not written)
    c_ret,          \* outcome of the consumer's last call
    c_order,        \* which operand an observer called by the consumer loads first
    c_obs_first,    \* the value of that first load
    c_obs,          \* what the consumer's last observer returned (NoVal: none)
    c_saw,          \* the consumer's call follows an empty() that returned false
    \* history, not read by the program
    pushed,         \* values published by a store to head, in order
    received,       \* values delivered to the consumer's caller, in order
    live,           \* values published and not yet reclaimed by a store to tail
    dropped,        \* values whose construction failed
    fault,          \* a slot was read or destroyed without an object in it,
                    \* or constructed over an object
    c_touched,      \* slots the consumer's call has accessed so far
    c_live0,        \* live when the consumer's call loaded head
    c_snap,         \* storage when the consumer's call loaded head
    c_head0,        \* head when the consumer's call began
    c_tail0,        \* tail when the consumer's call began
    c_rcv0,         \* Len(received) when the consumer's call began
    p_failIdx,      \* slot of the last failed construction, or NoVal
    lastPeek,       \* value of the last successful peek while it is still the oldest
    p_steps,        \* steps the producer has taken in its current or last call
    c_steps,        \* steps the consumer has taken in its current or last call
    p_fit           \* the emplace_bulk batch fitted in the free space when called

shared == <<head, tail, storage>>
pextra == <<p_op, p_batch, p_order, p_first, p_obs, p_saw, p_fit>>
cextra == <<c_order, c_obs_first, c_obs, c_saw>>
pvars  == <<p_pc, p_val, p_head_loaded, p_ret, nextVal, nfail, p_steps, pextra>>
cvars  == <<c_pc, c_op, c_tail_loaded, c_head_loaded, c_max_n, c_to_pop, c_first,
            c_i, c_out, c_bulk, c_ret, c_steps, cextra>>
cghost == <<c_touched, c_live0, c_snap, c_head0, c_tail0, c_rcv0, lastPeek>>
hist   == <<pushed, received, live, dropped, fault, p_failIdx>>
vars   == <<shared, pvars, cvars, cghost, hist>>

\* counter values at which a run starts: 0 after construction, and just
\* below the overflow of the counters after CounterMod - 2 elements have
\* passed through the buffer
Starts == {0, CounterMod - 2}

EmptyStorage == [s \in Slots |-> NoVal]
EmptyBulk == [k \in 0 .. (MaxN - 1) |-> NoVal]
\* c_ret: ok is the bool (or has_value()), n is pop_bulk's count
NoRet == [op |-> "none", ok |-> FALSE, n |-> 0]

\* SpscRingBuffer() : head(0), tail(0) {}
Init ==
    /\ is_power_of_two(Capacity) /\ Capacity >= 2
    /\ \E s \in Starts : head = s /\ tail = s
    /\ storage = EmptyStorage
    /\ p_pc = "idle" /\ p_val = NoVal /\ p_head_loaded = 0 /\ p_ret = "none"
    /\ nextVal = 0 /\ nfail = 0
    /\ c_pc = "idle" /\ c_op = "none" /\ c_tail_loaded = 0 /\ c_head_loaded = 0
    /\ c_max_n = 0 /\ c_to_pop = 0 /\ c_first = 0 /\ c_i = 0
    /\ c_out = NoVal /\ c_bulk = EmptyBulk /\ c_ret = NoRet
    /\ pushed = <<>> /\ received = <<>> /\ live = <<>> /\ dropped = {}
    /\ fault = FALSE /\ p_failIdx = NoVal
    /\ c_touched = {} /\ c_live0 = <<>> /\ c_snap = EmptyStorage
    /\ c_head0 = 0 /\ c_tail0 = 0 /\ c_rcv0 = 0 /\ lastPeek = NoVal
    /\ p_op = "none" /\ p_batch = 0 /\ p_order = "none" /\ p_first = 0
    /\ p_obs = NoVal /\ p_saw = FALSE /\ p_fit = FALSE /\ p_steps = 0
    /\ c_order = "none" /\ c_obs_first = 0 /\ c_obs = NoVal /\ c_saw = FALSE
    /\ c_steps = 0

\* ----------------------------------------------------------- slot access
\* what a read of slot i yields: its value, or anything when it holds no object
ReadValues(i) ==
    IF i \in Slots /\ storage[i] \in Values THEN {storage[i]} ELSE Values
ReadFaults(i) == ~(i \in Slots /\ storage[i] \in Values)
\* std::destroy_at(slot)
Destroyed(i) == IF i \in Slots THEN [storage EXCEPT ![i] = NoVal] ELSE storage
DestroyFaults(i) == ~(i \in Slots /\ storage[i] # NoVal)
\* the object left behind by std::move(*slot)
MovedOut(i) == IF i \in Slots THEN [storage EXCEPT ![i] = MovedFrom] ELSE storage

\* ---------------------------------------------------------------- producer
\* main.cpp: for (i ...) while (!q.emplace(i)) yield;  with
\* emplace: const auto head_loaded = head.load(relaxed); next = head_loaded + 1
emplace_Call ==
    /\ p_pc = "idle"
    /\ nextVal < MaxPush
    /\ p_val' = nextVal
    /\ p_head_loaded' = head
    /\ p_pc' = "check"
    /\ p_ret' = "none"
    /\ UNCHANGED <<shared, nextVal, nfail, cvars, cghost, hist>>
    /\ p_steps' = 1
    /\ p_op' = "emplace"
    /\ p_saw' = (p_op = "full" /\ p_obs = 0)
    /\ p_batch' = 0 /\ p_fit' = FALSE /\ p_order' = "none" /\ p_first' = 0
    /\ p_obs' = NoVal

\* variant: emplace waits for room instead of returning false
emplace_CheckSpins ==
    /\ p_pc = "check"
    /\ IF FullTest(Wrap(p_head_loaded + 1), tail)
         THEN p_pc' = "check" /\ p_ret' = p_ret
         ELSE p_pc' = "construct" /\ p_ret' = p_ret
    /\ UNCHANGED <<shared, p_val, p_head_loaded, nextVal, nfail, cvars, cghost, hist>>
    /\ p_steps' = p_steps + 1
    /\ UNCHANGED pextra

\* if (next - tail.load(acquire) > Capacity - 1) return false;
emplace_Check ==
    /\ p_pc = "check"
    /\ IF FullTest(Wrap(p_head_loaded + 1), tail)
         THEN p_pc' = "idle" /\ p_ret' = "false"
         ELSE p_pc' = "construct" /\ p_ret' = p_ret
    /\ UNCHANGED <<shared, p_val, p_head_loaded, nextVal, nfail, cvars, cghost, hist>>
    /\ p_steps' = p_steps + 1
    /\ UNCHANGED pextra

\* variant: head is stored where the element should have been constructed
emplace_ConstructStoresHead ==
    /\ p_pc = "construct"
    /\ head' = Wrap(p_head_loaded + 1)
    /\ p_pc' = "publish"
    /\ UNCHANGED <<tail, storage, p_val, p_head_loaded, p_ret, nextVal, nfail,
                   cvars, cghost, hist>>
    /\ p_steps' = p_steps + 1
    /\ UNCHANGED pextra

\* std::construct_at(slot, args...) at idx = head_loaded & Mask
emplace_Construct ==
    /\ p_pc = "construct"
    /\ LET idx == SlotIndex(p_head_loaded) IN
         /\ storage' = [storage EXCEPT ![idx] = p_val]
         /\ fault' = (fault \/ storage[idx] # NoVal)
    /\ p_pc' = "publish"
    /\ UNCHANGED <<head, tail, p_val, p_head_loaded, p_ret, nextVal, nfail,
                   cvars, cghost, pushed, received, live, dropped, p_failIdx>>
    /\ p_steps' = p_steps + 1
    /\ UNCHANGED pextra

\* variant: head was stored before the construction, and the construction throws
emplace_ConstructThrowsPublished ==
    /\ p_pc = "construct"
    /\ nfail < MaxFail
    /\ nfail' = nfail + 1
    /\ head' = Wrap(p_head_loaded + 1)
    /\ p_pc' = "idle"
    /\ p_ret' = "threw"
    /\ nextVal' = nextVal + 1
    /\ dropped' = dropped \cup {p_val}
    /\ p_failIdx' = SlotIndex(p_head_loaded)
    /\ UNCHANGED <<tail, storage, p_val, p_head_loaded, cvars, cghost,
                   pushed, received, live, fault>>
    /\ p_steps' = p_steps + 1
    /\ UNCHANGED pextra

\* the element's constructor throws: the exception leaves emplace, no object
\* exists in the slot; the driver goes on with its next value
emplace_ConstructThrows ==
    /\ p_pc = "construct"
    /\ nfail < MaxFail
    /\ nfail' = nfail + 1
    /\ p_pc' = "idle"
    /\ p_ret' = "threw"
    /\ nextVal' = nextVal + 1
    /\ dropped' = dropped \cup {p_val}
    /\ p_failIdx' = SlotIndex(p_head_loaded)
    /\ UNCHANGED <<shared, p_val, p_head_loaded, cvars, cghost,
                   pushed, received, live, fault>>
    /\ p_steps' = p_steps + 1
    /\ UNCHANGED pextra

\* head.store(next, release); return true;
emplace_Publish ==
    /\ p_pc = "publish"
    /\ head' = Wrap(p_head_loaded + 1)
    /\ p_pc' = "idle"
    /\ p_ret' = "true"
    /\ nextVal' = nextVal + 1
    /\ pushed' = Append(pushed, p_val)
    /\ live' = Append(live, p_val)
    /\ p_failIdx' = NoVal
    /\ UNCHANGED <<tail, storage, p_val, p_head_loaded, nfail, cvars, cghost,
                   received, dropped, fault>>
    /\ p_steps' = p_steps + 1
    /\ UNCHANGED pextra

\* variant: the batch is inserted when it fits
emplace_bulk_CallInserts ==
    /\ p_pc = "idle"
    /\ \E n \in 1 .. MaxBatch :
         /\ p_batch' = n
         /\ p_fit' = (n <= Capacity - 1 - Wrap(head - tail))
         /\ IF n <= Capacity - 1 - Wrap(head - tail) /\ nextVal < MaxPush
              THEN /\ storage' = [storage EXCEPT ![SlotIndex(head)] = nextVal]
                   /\ head' = Wrap(head + 1)
                   /\ p_ret' = "true"
              ELSE /\ UNCHANGED <<head, storage>>
                   /\ p_ret' = "false"
    /\ p_op' = "emplace_bulk"
    /\ p_steps' = 1
    /\ p_saw' = FALSE /\ p_order' = "none" /\ p_first' = 0 /\ p_obs' = NoVal
    /\ UNCHANGED <<tail, p_pc, p_val, p_head_loaded, nextVal, nfail,
                   cvars, cghost, hist>>

\* bool emplace_bulk(T&& elements...) { return false; }
emplace_bulk_Call ==
    /\ p_pc = "idle"
    /\ \E n \in 1 .. MaxBatch :
         /\ p_batch' = n
         /\ p_fit' = (n <= Capacity - 1 - Wrap(head - tail))
    /\ p_op' = "emplace_bulk"
    /\ p_ret' = "false"
    /\ p_steps' = 1
    /\ p_saw' = FALSE /\ p_order' = "none" /\ p_first' = 0 /\ p_obs' = NoVal
    /\ UNCHANGED <<shared, p_pc, p_val, p_head_loaded, nextVal, nfail,
                   cvars, cghost, hist>>

\* ---------------------------------------------------------------- consumer
DropLive(n) == SubSeq(live, n + 1, Len(live))

\* a public consumer operation is entered: a fresh destination, and the
\* relaxed load of tail
Enter(op) ==
    /\ c_pc = "idle"
    /\ c_op' = op
    /\ c_tail_loaded' = tail
    /\ c_out' = NoVal
    /\ c_bulk' = EmptyBulk
    /\ c_ret' = NoRet
    /\ c_head_loaded' = 0 /\ c_to_pop' = 0 /\ c_first' = 0 /\ c_i' = 0
    /\ c_touched' = {}
    /\ c_head0' = head
    /\ c_tail0' = tail
    /\ c_rcv0' = Len(received)
    /\ c_live0' = <<>>
    /\ c_snap' = EmptyStorage
    /\ UNCHANGED <<shared, pvars, hist, lastPeek>>
    /\ c_steps' = 1
    /\ c_saw' = (c_op = "empty" /\ c_obs = 0)
    /\ c_order' = "none" /\ c_obs_first' = 0 /\ c_obs' = NoVal

\* the acquire load of head by pop, try_pop and peek, and the test for empty
CheckEmpty(pcFail, retFail, pcGo) ==
    /\ IF EmptyTest(c_tail_loaded, head)
         THEN c_pc' = pcFail /\ c_ret' = retFail
         ELSE c_pc' = pcGo /\ c_ret' = c_ret
    /\ c_live0' = live
    /\ c_snap' = storage
    /\ UNCHANGED <<shared, pvars, hist, c_op, c_tail_loaded, c_head_loaded, c_max_n,
                   c_to_pop, c_first, c_i, c_out, c_bulk, c_touched, c_head0, c_tail0,
                   c_rcv0, lastPeek>>
    /\ c_steps' = c_steps + 1
    /\ UNCHANGED cextra

\* out = std::move(*slot) at idx = tail_loaded & Mask
MoveOut(pcNext) ==
    LET idx == SlotIndex(c_tail_loaded) IN
    /\ \E v \in ReadValues(idx) : c_out' = v
    /\ storage' = MovedOut(idx)
    /\ fault' = (fault \/ ReadFaults(idx))
    /\ c_touched' = c_touched \cup {idx}
    /\ c_pc' = pcNext
    /\ UNCHANGED <<head, tail, pvars, c_op, c_tail_loaded, c_head_loaded, c_max_n,
                   c_to_pop, c_first, c_i, c_bulk, c_ret, c_live0, c_snap, c_head0,
                   c_tail0, c_rcv0, lastPeek, pushed, received, live, dropped, p_failIdx>>
    /\ c_steps' = c_steps + 1
    /\ UNCHANGED cextra

\* std::destroy_at(slot)
DestroySlot(pcNext) ==
    LET idx == SlotIndex(c_tail_loaded) IN
    /\ storage' = Destroyed(idx)
    /\ fault' = (fault \/ DestroyFaults(idx))
    /\ c_pc' = pcNext
    /\ UNCHANGED <<head, tail, pvars, c_op, c_tail_loaded, c_head_loaded, c_max_n,
                   c_to_pop, c_first, c_i, c_out, c_bulk, c_ret, cghost,
                   pushed, received, live, dropped, p_failIdx>>
    /\ c_steps' = c_steps + 1
    /\ UNCHANGED cextra

\* ---- bool pop(T& out)
pop_Call ==
    /\ Enter("pop")
    /\ c_pc' = "pop_check"
    /\ UNCHANGED c_max_n

pop_Check ==
    /\ c_pc = "pop_check"
    /\ CheckEmpty("idle", [op |-> "pop", ok |-> FALSE, n |-> 0], "pop_move")

pop_Move ==
    /\ c_pc = "pop_move"
    /\ MoveOut("pop_destroy")

pop_Destroy ==
    /\ c_pc = "pop_destroy"
    /\ DestroySlot("pop_store")

\* tail.store(tail_loaded + 1, release); return true;
pop_Store ==
    /\ c_pc = "pop_store"
    /\ tail' = Wrap(c_tail_loaded + 1)
    /\ c_pc' = "idle"
    /\ c_ret' = [op |-> "pop", ok |-> TRUE, n |-> 1]
    /\ received' = Append(received, c_out)
    /\ live' = DropLive(1)
    /\ lastPeek' = NoVal
    /\ UNCHANGED <<head, storage, pvars, c_op, c_tail_loaded, c_head_loaded, c_max_n,
                   c_to_pop, c_first, c_i, c_out, c_bulk, c_touched, c_live0, c_snap,
                   c_head0, c_tail0, c_rcv0, pushed, dropped, fault, p_failIdx>>
    /\ c_steps' = c_steps + 1
    /\ UNCHANGED cextra

\* ---- std::optional<T> try_pop(), called by the consumer or by clear()
\* where try_pop returns to
AfterTryPop == IF c_op = "clear" THEN "clear_test" ELSE "idle"

try_pop_Call ==
    /\ Enter("try_pop")
    /\ c_pc' = "try_pop_check"
    /\ UNCHANGED c_max_n

\* return std::nullopt;
try_pop_Check ==
    /\ c_pc = "try_pop_check"
    /\ CheckEmpty(AfterTryPop,
                  IF c_op = "clear" THEN c_ret
                  ELSE [op |-> "try_pop", ok |-> FALSE, n |-> 0],
                  "try_pop_move")

\* std::optional<T> ret{std::move(*slot)};
try_pop_Move ==
    /\ c_pc = "try_pop_move"
    /\ MoveOut("try_pop_destroy")

\* variant: try_pop leaves the moved-from object in its slot
try_pop_DestroySkipped ==
    /\ c_pc = "try_pop_destroy"
    /\ c_pc' = "try_pop_store"
    /\ UNCHANGED <<shared, pvars, hist, c_op, c_tail_loaded, c_head_loaded, c_max_n,
                   c_to_pop, c_first, c_i, c_out, c_bulk, c_ret, cghost>>
    /\ c_steps' = c_steps + 1
    /\ UNCHANGED cextra

try_pop_Destroy ==
    /\ c_pc = "try_pop_destroy"
    /\ DestroySlot("try_pop_store")

\* tail.store(tail_loaded + 1, release); return ret;
try_pop_Store ==
    /\ c_pc = "try_pop_store"
    /\ tail' = Wrap(c_tail_loaded + 1)
    /\ c_pc' = AfterTryPop
    /\ c_ret' = IF c_op = "clear" THEN c_ret
                ELSE [op |-> "try_pop", ok |-> TRUE, n |-> 1]
    /\ received' = IF c_op = "clear" THEN received ELSE Append(received, c_out)
    /\ live' = DropLive(1)
    /\ lastPeek' = NoVal
    /\ UNCHANGED <<head, storage, pvars, c_op, c_tail_loaded, c_head_loaded, c_max_n,
                   c_to_pop, c_first, c_i, c_out, c_bulk, c_touched, c_live0, c_snap,
                   c_head0, c_tail0, c_rcv0, pushed, dropped, fault, p_failIdx>>
    /\ c_steps' = c_steps + 1
    /\ UNCHANGED cextra

\* ---- void clear(): while (true) { auto v = this->try_pop(); if (!v) break; }
clear_Call ==
    /\ Enter("clear")
    /\ c_pc' = "try_pop_check"
    /\ UNCHANGED c_max_n

\* variant: the loop is left after its first iteration
clear_TestBreaksAlways ==
    /\ c_pc = "clear_test"
    /\ c_pc' = "idle"
    /\ c_ret' = [op |-> "clear", ok |-> TRUE, n |-> 0]
    /\ UNCHANGED <<shared, pvars, hist, c_op, c_tail_loaded, c_head_loaded, c_max_n,
                   c_to_pop, c_first, c_i, c_out, c_bulk, cghost>>
    /\ c_steps' = c_steps + 1
    /\ UNCHANGED cextra

\* variant: clear resets both counters instead of draining
clear_TestResetsCounters ==
    /\ c_pc = "clear_test"
    /\ c_pc' = "idle"
    /\ c_ret' = [op |-> "clear", ok |-> TRUE, n |-> 0]
    /\ head' = 0 /\ tail' = 0
    /\ UNCHANGED <<storage, pvars, hist, c_op, c_tail_loaded, c_head_loaded, c_max_n,
                   c_to_pop, c_first, c_i, c_out, c_bulk, cghost>>
    /\ c_steps' = c_steps + 1
    /\ UNCHANGED cextra

\* if (!v) break;  otherwise v is discarded and try_pop is called again
clear_Test ==
    /\ c_pc = "clear_test"
    /\ IF c_out = NoVal
         THEN /\ c_pc' = "idle"
              /\ c_ret' = [op |-> "clear", ok |-> TRUE, n |-> 0]
              /\ UNCHANGED <<c_tail_loaded, c_out>>
         ELSE /\ c_pc' = "try_pop_check"
              /\ c_tail_loaded' = tail
              /\ c_out' = NoVal
              /\ c_ret' = c_ret
    /\ UNCHANGED <<shared, pvars, hist, c_op, c_head_loaded, c_max_n, c_to_pop,
                   c_first, c_i, c_bulk, cghost>>
    /\ c_steps' = c_steps + 1
    /\ UNCHANGED cextra

\* ---- bool peek(T& out) const
peek_Call ==
    /\ Enter("peek")
    /\ c_pc' = "peek_check"
    /\ UNCHANGED c_max_n

peek_Check ==
    /\ c_pc = "peek_check"
    /\ CheckEmpty("idle", [op |-> "peek", ok |-> FALSE, n |-> 0], "peek_copy")

\* variant: out = std::move(*slot)
peek_CopyMovesFrom ==
    /\ c_pc = "peek_copy"
    /\ LET idx == SlotIndex(c_tail_loaded) IN
         /\ \E v \in ReadValues(idx) : c_out' = v /\ lastPeek' = v
         /\ fault' = (fault \/ ReadFaults(idx))
         /\ c_touched' = c_touched \cup {idx}
         /\ storage' = MovedOut(idx)
    /\ c_pc' = "idle"
    /\ c_ret' = [op |-> "peek", ok |-> TRUE, n |-> 1]
    /\ UNCHANGED <<head, tail, pvars, c_op, c_tail_loaded, c_head_loaded, c_max_n,
                   c_to_pop, c_first, c_i, c_bulk, c_live0, c_snap, c_head0, c_tail0,
                   c_rcv0, pushed, received, live, dropped, p_failIdx>>
    /\ c_steps' = c_steps + 1
    /\ UNCHANGED cextra

\* out = *slot; return true;
peek_Copy ==
    /\ c_pc = "peek_copy"
    /\ LET idx == SlotIndex(c_tail_loaded) IN
         /\ \E v \in ReadValues(idx) : c_out' = v /\ lastPeek' = v
         /\ fault' = (fault \/ ReadFaults(idx))
         /\ c_touched' = c_touched \cup {idx}
    /\ c_pc' = "idle"
    /\ c_ret' = [op |-> "peek", ok |-> TRUE, n |-> 1]
    /\ UNCHANGED <<shared, pvars, c_op, c_tail_loaded, c_head_loaded, c_max_n,
                   c_to_pop, c_first, c_i, c_bulk, c_live0, c_snap, c_head0, c_tail0,
                   c_rcv0, pushed, received, live, dropped, p_failIdx>>
    /\ c_steps' = c_steps + 1
    /\ UNCHANGED cextra

\* ---- std::size_t pop_bulk(T* out, std::size_t max_n)
pop_bulk_Call ==
    /\ Enter("pop_bulk")
    /\ c_pc' = "pop_bulk_load"
    /\ \E n \in 0 .. MaxN : c_max_n' = n

\* where pop_bulk goes after i iterations of its first loop
AfterFirstLoop(i, first, to_pop) ==
    IF i < first THEN "pop_bulk_move1"
    ELSE IF first < to_pop THEN "pop_bulk_move2"
    ELSE "pop_bulk_store"
\* where pop_bulk goes after i iterations of its second loop
AfterSecondLoop(i, first, to_pop) ==
    IF i < to_pop - first THEN "pop_bulk_move2" ELSE "pop_bulk_store"

\* variant: tail is stored before the slots are moved out and destroyed
pop_bulk_LoadStoresTail ==
    /\ c_pc = "pop_bulk_load"
    /\ c_head_loaded' = head
    /\ c_live0' = live
    /\ c_snap' = storage
    /\ LET available == Available(head, c_tail_loaded)
           to_pop == ToPop(available, c_max_n)
           first == First(SlotIndex(c_tail_loaded), to_pop)
       IN IF available = 0 \/ c_max_n = 0
            THEN /\ c_pc' = "idle"
                 /\ c_ret' = [op |-> "pop_bulk", ok |-> FALSE, n |-> 0]
                 /\ UNCHANGED <<c_to_pop, c_first, tail>>
            ELSE /\ c_to_pop' = to_pop
                 /\ c_first' = first
                 /\ c_pc' = AfterFirstLoop(0, first, to_pop)
                 /\ c_ret' = c_ret
                 /\ tail' = Wrap(c_tail_loaded + to_pop)
    /\ UNCHANGED <<head, storage, pvars, hist, c_op, c_tail_loaded, c_max_n, c_i, c_out,
                   c_bulk, c_touched, c_head0, c_tail0, c_rcv0, lastPeek>>
    /\ c_steps' = c_steps + 1
    /\ UNCHANGED cextra

\* head_loaded = head.load(acquire); available = head_loaded - tail_loaded;
\* if (available == 0 || max_n == 0) return 0;  to_pop, idx, first
pop_bulk_Load ==
    /\ c_pc = "pop_bulk_load"
    /\ c_head_loaded' = head
    /\ c_live0' = live
    /\ c_snap' = storage
    /\ LET available == Available(head, c_tail_loaded)
           to_pop == ToPop(available, c_max_n)
           first == First(SlotIndex(c_tail_loaded), to_pop)
       IN IF available = 0 \/ c_max_n = 0
            THEN /\ c_pc' = "idle"
                 /\ c_ret' = [op |-> "pop_bulk", ok |-> FALSE, n |-> 0]
                 /\ UNCHANGED <<c_to_pop, c_first>>
            ELSE /\ c_to_pop' = to_pop
                 /\ c_first' = first
                 /\ c_pc' = AfterFirstLoop(0, first, to_pop)
                 /\ c_ret' = c_ret
    /\ UNCHANGED <<shared, pvars, hist, c_op, c_tail_loaded, c_max_n, c_i, c_out,
                   c_bulk, c_touched, c_head0, c_tail0, c_rcv0, lastPeek>>
    /\ c_steps' = c_steps + 1
    /\ UNCHANGED cextra

\* out[k] = std::move(*slot) for the slot at position s of the storage
BulkMove(s, k, pcNext) ==
    /\ \E v \in ReadValues(s) :
         c_bulk' = IF k \in DOMAIN c_bulk THEN [c_bulk EXCEPT ![k] = v] ELSE c_bulk
    /\ storage' = MovedOut(s)
    /\ fault' = (fault \/ ReadFaults(s) \/ k \notin DOMAIN c_bulk)
    /\ c_touched' = c_touched \cup {s}
    /\ c_pc' = pcNext
    /\ UNCHANGED <<head, tail, pvars, c_op, c_tail_loaded, c_head_loaded, c_max_n,
                   c_to_pop, c_first, c_i, c_out, c_ret, c_live0, c_snap, c_head0,
                   c_tail0, c_rcv0, lastPeek, pushed, received, live, dropped,
                   p_failIdx>>
    /\ c_steps' = c_steps + 1
    /\ UNCHANGED cextra

\* std::destroy_at(slot); ++i
BulkDestroy(s, pcNext) ==
    /\ storage' = Destroyed(s)
    /\ fault' = (fault \/ DestroyFaults(s))
    /\ c_i' = c_i + 1
    /\ c_pc' = pcNext
    /\ UNCHANGED <<head, tail, pvars, c_op, c_tail_loaded, c_head_loaded, c_max_n,
                   c_to_pop, c_first, c_out, c_bulk, c_ret, cghost,
                   pushed, received, live, dropped, p_failIdx>>
    /\ c_steps' = c_steps + 1
    /\ UNCHANGED cextra

\* for (i = 0; i < first; ++i): slot idx + i, out[i]
pop_bulk_Move1 ==
    /\ c_pc = "pop_bulk_move1"
    /\ BulkMove(SlotIndex(c_tail_loaded) + c_i, c_i, "pop_bulk_destroy1")

pop_bulk_Destroy1 ==
    /\ c_pc = "pop_bulk_destroy1"
    /\ BulkDestroy(SlotIndex(c_tail_loaded) + c_i,
                   AfterFirstLoop(c_i + 1, c_first, c_to_pop))
    
\* popped = first; for (i = 0; i < to_pop - first; ++i): slot i, out[popped + i]
pop_bulk_Move2 ==
    /\ c_pc = "pop_bulk_move2"
    /\ LET i == c_i - c_first IN BulkMove(i, c_first + i, "pop_bulk_destroy2")

pop_bulk_Destroy2 ==
    /\ c_pc = "pop_bulk_destroy2"
    /\ LET i == c_i - c_first IN
         BulkDestroy(i, AfterSecondLoop(i + 1, c_first, c_to_pop))

\* the values out[0 .. n-1]
BulkOut(n) == [k \in 1 .. n |-> IF (k - 1) \in DOMAIN c_bulk THEN c_bulk[k - 1] ELSE NoVal]

\* tail.store(tail_loaded + to_pop, release); return to_pop;
pop_bulk_Store ==
    /\ c_pc = "pop_bulk_store"
    /\ tail' = Wrap(c_tail_loaded + c_to_pop)
    /\ c_pc' = "idle"
    /\ c_ret' = [op |-> "pop_bulk", ok |-> TRUE, n |-> c_to_pop]
    /\ received' = received \o BulkOut(c_to_pop)
    /\ live' = DropLive(c_to_pop)
    /\ lastPeek' = NoVal
    /\ UNCHANGED <<head, storage, pvars, c_op, c_tail_loaded, c_head_loaded, c_max_n,
                   c_to_pop, c_first, c_i, c_out, c_bulk, c_touched, c_live0, c_snap,
                   c_head0, c_tail0, c_rcv0, pushed, dropped, fault, p_failIdx>>
    /\ c_steps' = c_steps + 1
    /\ UNCHANGED cextra

\* ------------------------------------------------------------ observers
\* empty(): tail.load() == head.load()
empty_of(h, t) == t = h
\* full(): head.load() - tail.load() >= Capacity - 1
\* variant: a full() that is never true
full_ofStrict(h, t) == Wrap(h - t) > Capacity - 1
full_of(h, t) == Wrap(h - t) >= Capacity - 1
\* size(): head.load() - tail.load()
size_of(h, t) == Wrap(h - t)

\* the value each observer returns when it runs without interference
empty == empty_of(head, tail)
full == full_of(head, tail)
size == size_of(head, tail)
\* capacity()
capacity == Capacity

\* the observers that load the counters, and the two orders in which the
\* operands of == , - may be evaluated
ObserverKinds == {"empty", "full", "size"}
LoadOrders == {"head_first", "tail_first"}
\* what the observer returns, a bool as 0 or 1
ObserverValue(kind, h, t) ==
    CASE kind = "empty" -> IF empty_of(h, t) THEN 1 ELSE 0
      [] kind = "full" -> IF full_of(h, t) THEN 1 ELSE 0
      [] OTHER -> size_of(h, t)

\* ---- empty(), full() or size() called by the producer thread: first load
observe_P_Call ==
    /\ p_pc = "idle"
    /\ \E kind \in ObserverKinds, ord \in LoadOrders :
         /\ p_op' = kind
         /\ p_order' = ord
         /\ p_first' = IF ord = "head_first" THEN head ELSE tail
    /\ p_pc' = "observe"
    /\ p_ret' = "none"
    /\ p_obs' = NoVal
    /\ p_saw' = FALSE /\ p_batch' = 0 /\ p_fit' = FALSE
    /\ p_steps' = 1
    /\ UNCHANGED <<shared, p_val, p_head_loaded, nextVal, nfail, cvars, cghost, hist>>

\* second load, and return
observe_P_Return ==
    /\ p_pc = "observe"
    /\ LET h == IF p_order = "head_first" THEN p_first ELSE head
           t == IF p_order = "head_first" THEN tail ELSE p_first
       IN p_obs' = ObserverValue(p_op, h, t)
    /\ p_pc' = "idle"
    /\ p_order' = "none" /\ p_first' = 0
    /\ p_steps' = p_steps + 1
    /\ UNCHANGED <<shared, p_val, p_head_loaded, p_ret, nextVal, nfail, p_op, p_saw,
                   p_batch, p_fit, cvars, cghost, hist>>

\* static constexpr std::size_t capacity() { return Capacity; }
capacity_P_Call ==
    /\ p_pc = "idle"
    /\ p_op' = "capacity"
    /\ p_obs' = capacity
    /\ p_ret' = "none"
    /\ p_order' = "none" /\ p_first' = 0
    /\ p_saw' = FALSE /\ p_batch' = 0 /\ p_fit' = FALSE
    /\ p_steps' = 1
    /\ UNCHANGED <<shared, p_pc, p_val, p_head_loaded, nextVal, nfail, cvars, cghost,
                   hist>>

\* ---- empty(), full() or size() called by the consumer thread: first load
observe_C_Call ==
    /\ c_pc = "idle"
    /\ \E kind \in ObserverKinds, ord \in LoadOrders :
         /\ c_op' = kind
         /\ c_order' = ord
         /\ c_obs_first' = IF ord = "head_first" THEN head ELSE tail
    /\ c_pc' = "observe"
    /\ c_ret' = NoRet
    /\ c_obs' = NoVal
    /\ c_saw' = FALSE
    /\ c_steps' = 1
    /\ c_out' = NoVal /\ c_bulk' = EmptyBulk
    /\ c_tail_loaded' = 0 /\ c_head_loaded' = 0 /\ c_to_pop' = 0 /\ c_first' = 0
    /\ c_i' = 0 /\ c_max_n' = 0
    /\ c_touched' = {} /\ c_live0' = <<>> /\ c_snap' = EmptyStorage
    /\ c_head0' = head /\ c_tail0' = tail /\ c_rcv0' = Len(received)
    /\ UNCHANGED <<shared, pvars, hist, lastPeek>>

\* second load, and return
observe_C_Return ==
    /\ c_pc = "observe"
    /\ LET h == IF c_order = "head_first" THEN c_obs_first ELSE head
           t == IF c_order = "head_first" THEN tail ELSE c_obs_first
       IN c_obs' = ObserverValue(c_op, h, t)
    /\ c_pc' = "idle"
    /\ c_order' = "none" /\ c_obs_first' = 0
    /\ c_steps' = c_steps + 1
    /\ UNCHANGED <<shared, pvars, hist, c_op, c_tail_loaded, c_head_loaded, c_max_n,
                   c_to_pop, c_first, c_i, c_out, c_bulk, c_ret, c_saw, cghost>>

\* ------------------------------------------------------ specifications
Producer ==
    \/ emplace_Call
    \/ emplace_Check
    \/ emplace_Construct
    \/ emplace_ConstructThrows
    \/ emplace_Publish

PopSteps == pop_Call \/ pop_Check \/ pop_Move \/ pop_Destroy \/ pop_Store
TryPopSteps ==
    try_pop_Call \/ try_pop_Check \/ try_pop_Move \/ try_pop_Destroy \/ try_pop_Store
ClearSteps == clear_Call \/ clear_Test
PeekSteps == peek_Call \/ peek_Check \/ peek_Copy
PopBulkSteps ==
    \/ pop_bulk_Call
    \/ pop_bulk_Load
    \/ pop_bulk_Move1
    \/ pop_bulk_Destroy1
    \/ pop_bulk_Move2
    \/ pop_bulk_Destroy2
    \/ pop_bulk_Store

Consumer == PopSteps \/ TryPopSteps \/ ClearSteps \/ PeekSteps \/ PopBulkSteps

Next == Producer \/ Consumer

\* one producer and one consumer using every operation of the buffer
Spec == Init /\ [][Next]_vars

\* main.cpp and bench.cpp: the producer retries emplace, the consumer
\* retries pop (or try_pop); no other operation is called
NextSPSC == Producer \/ PopSteps \/ TryPopSteps
SpecSPSC == Init /\ [][NextSPSC]_vars

\* the producer also calls emplace_bulk, and both threads call the observers
Observers ==
    \/ observe_P_Call
    \/ observe_P_Return
    \/ capacity_P_Call
    \/ observe_C_Call
    \/ observe_C_Return
NextObs == NextSPSC \/ emplace_bulk_Call \/ Observers
SpecObs == Init /\ [][NextObs]_vars

\* tests.cpp: every operation of the buffer is called, one call at a time,
\* and no construction fails
ProducerCalls ==
    \/ emplace_Call
    \/ emplace_Check
    \/ emplace_Construct
    \/ emplace_Publish
    \/ emplace_bulk_Call
    \/ observe_P_Call
    \/ observe_P_Return
    \/ capacity_P_Call
ConsumerCalls == Consumer \/ observe_C_Call \/ observe_C_Return
NextSeq ==
    \/ c_pc = "idle" /\ ProducerCalls
    \/ p_pc = "idle" /\ ConsumerCalls
SpecSeq == Init /\ [][NextSeq]_vars

\* main.cpp and bench.cpp under a fair scheduler: the producer thread
\* retries emplace until it has pushed MaxPush values, the consumer thread
\* retries pop while (count < N), and each thread keeps being scheduled
cons_pop_Call == Len(received) < MaxPush /\ pop_Call
ProducerLoop == emplace_Call \/ emplace_Check \/ emplace_Construct \/ emplace_Publish
ConsumerLoop == cons_pop_Call \/ pop_Check \/ pop_Move \/ pop_Destroy \/ pop_Store
NextLive == ProducerLoop \/ ConsumerLoop
SpecLive ==
    Init /\ [][NextLive]_vars /\ WF_vars(ProducerLoop) /\ WF_vars(ConsumerLoop)

\* ------------------------------------------------------------ properties
IsPrefix(s, t) == Len(s) <= Len(t) /\ \A k \in 1 .. Len(s) : s[k] = t[k]
\* neither thread is inside an operation
Quiescent == p_pc = "idle" /\ c_pc = "idle"
\* number of slots that hold an object
Held == Cardinality({s \in Slots : storage[s] \in Values})
\* the producer's driver has left its loop
ProducerDone == p_pc = "idle" /\ nextVal = MaxPush
Min(a, b) == IF a < b THEN a ELSE b

\* C1: with a producer retrying emplace and a consumer retrying pop or
\* try_pop, under every interleaving of their steps the values received are
\* a prefix of the values pushed, in the same order; no pushed value is
\* lost (whenever the consumer is between calls every pushed value has been
\* received or is counted by head - tail); no value is received twice; and
\* once as many values have been received as the producer pushed, the two
\* sequences are equal.
C1_FifoPrefix ==
    /\ IsPrefix(received, pushed)
    /\ \A j, k \in 1 .. Len(received) : j # k => received[j] # received[k]
    /\ c_pc = "idle" => Len(pushed) = Len(received) + Wrap(head - tail)
    /\ (ProducerDone /\ Len(received) = Len(pushed)) => received = pushed
\* all MaxPush values have gone through a buffer that holds Capacity - 1
C1_Witness ==
    /\ ProducerDone
    /\ Len(received) = MaxPush
    /\ received = pushed
    /\ MaxPush > Capacity - 1

\* C2: in every reachable state, whatever the two threads are doing with
\* emplace, pop, try_pop, pop_bulk, peek and clear, the unsigned difference
\* head - tail is at most Capacity - 1 and is the number of elements
\* published and not yet reclaimed; when neither thread is inside an
\* operation it is also the number of slots that hold an object.
C2_HeadMinusTail ==
    /\ Wrap(head - tail) \in 0 .. (Capacity - 1)
    /\ Wrap(head - tail) = Len(live)
    /\ Quiescent => Held = Wrap(head - tail)
\* the buffer is full, head has overflowed and tail has not, and the
\* consumer is in the middle of a pop_bulk
C2_Witness ==
    /\ Wrap(head - tail) = Capacity - 1
    /\ head < tail
    /\ c_pc = "pop_bulk_destroy1"

\* the parts of C3, stated below
C3_FullState ==
    /\ Quiescent => (full <=> Held = Capacity - 1)
    /\ Quiescent => Held <= Capacity - 1
    /\ Len(live) = Len(pushed) => Len(pushed) <= Capacity - 1
C3_EmplaceStep ==
    /\ (p_pc = "check" /\ p_pc' # "check" /\ c_pc = "idle")
         => /\ (p_pc' = "idle" /\ p_ret' = "false") <=> (Held = Capacity - 1)
            /\ (p_pc' = "construct") <=> (Held < Capacity - 1)
    /\ (p_pc = "publish" /\ p_pc' # "publish")
         => p_ret' = "true" /\ Len(pushed') = Len(pushed) + 1
\* C3: when neither thread is inside an operation, full() is true exactly
\* when Capacity - 1 elements are held; an emplace that runs its test
\* while the consumer is idle returns false exactly when Capacity - 1
\* elements are held and goes on to construct exactly when fewer are, and
\* it returns true once the construction has completed; so as long as
\* nothing has been removed at most Capacity - 1 pushes have succeeded.
C3_CapacityMinusOne == [](C3_FullState) /\ [][C3_EmplaceStep]_vars
\* from empty and with no consumer call at all, Capacity - 1 pushes have
\* succeeded, the next one has failed and full() is true
C3_Witness ==
    /\ Quiescent
    /\ c_op = "none"
    /\ Len(pushed) = Capacity - 1
    /\ p_ret = "false"
    /\ full

\* the parts of C4, stated below
C4_Step ==
    /\ (p_pc = "check" /\ p_pc' # "check" /\ Wrap(p_head_loaded + 1 - tail) > Capacity - 1)
         => /\ p_pc' = "idle" /\ p_ret' = "false"
            /\ head' = head /\ tail' = tail /\ storage' = storage
            /\ live' = live /\ pushed' = pushed
            /\ head = p_head_loaded
    /\ (p_pc = "idle" /\ p_pc' = "check")
         => head' = head /\ tail' = tail /\ storage' = storage /\ live' = live
\* C4: an emplace whose test finds head + 1 - tail > Capacity - 1, with
\* the tail it loads, returns false, and neither that step nor the load of
\* head before it changes head, tail, a storage slot or the live elements.
C4_FullPushNoEffect == [][C4_Step]_vars
\* a push has just failed on a full buffer
C4_Witness ==
    /\ p_pc = "idle"
    /\ p_ret = "false"
    /\ Len(live) = Capacity - 1

\* the parts of C5, stated below
C5_EmptyStep ==
    (/\ c_op \in {"pop", "try_pop", "peek", "pop_bulk"}
     /\ c_pc \in {"pop_check", "try_pop_check", "peek_check", "pop_bulk_load"}
     /\ c_pc' # c_pc
     /\ c_tail_loaded = head)
        => /\ c_pc' = "idle"
           /\ c_ret' = [op |-> c_op, ok |-> FALSE, n |-> 0]
           /\ c_out' = NoVal /\ c_bulk' = EmptyBulk
           /\ c_touched' = {}
           /\ head' = head /\ tail' = tail /\ storage' = storage
           /\ received' = received /\ live' = live
C5_EmptyState ==
    (c_pc = "idle" /\ c_op \in {"pop", "try_pop", "peek"} /\ ~c_ret.ok)
        => c_touched = {} /\ c_out = NoVal /\ tail = c_tail_loaded
\* C5: pop, try_pop and peek whose loaded tail equals the head they load,
\* and pop_bulk likewise, report failure (false, nullopt, false, 0), access
\* no storage slot, leave the destination unwritten and leave head and
\* tail unchanged.
C5_EmptyFails == [](C5_EmptyState) /\ [][C5_EmptyStep]_vars
\* each of the four has failed on an empty buffer: here try_pop, after
\* elements have passed through the buffer
C5_Witness ==
    /\ c_pc = "idle"
    /\ c_op = "try_pop"
    /\ ~c_ret.ok
    /\ c_ret.op = "try_pop"
    /\ Len(pushed) > 0
    /\ live = <<>>

\* C6: pop_bulk(out, max_n) returns min(max_n, available), available being
\* head - tail as loaded by the call, which is the number of elements that
\* were live at that load: never more than max_n, never more than were
\* available, 0 when the buffer was empty or max_n is 0; tail has advanced
\* by the returned count, and the elements beyond that count are still in
\* their slots, in order.
C6_BulkCount ==
    (c_pc = "idle" /\ c_ret.op = "pop_bulk")
        => /\ c_ret.n = Min(c_max_n, Wrap(c_head_loaded - c_tail_loaded))
           /\ Wrap(c_head_loaded - c_tail_loaded) = Len(c_live0)
           /\ c_ret.n <= c_max_n
           /\ c_ret.n <= Len(c_live0)
           /\ (Len(c_live0) = 0 \/ c_max_n = 0) => c_ret.n = 0
           /\ tail = Wrap(c_tail_loaded + c_ret.n)
           /\ Len(received) = c_rcv0 + c_ret.n
           /\ \A k \in (c_ret.n + 1) .. Len(c_live0) :
                /\ live[k - c_ret.n] = c_live0[k]
                /\ storage[(c_tail_loaded + k - 1) % Capacity] = c_live0[k]
           /\ Cardinality(c_touched) = c_ret.n
\* fewer were requested than were available: one element stays behind
C6_Witness ==
    /\ c_pc = "idle"
    /\ c_ret.op = "pop_bulk"
    /\ c_ret.n = 2
    /\ c_max_n = 2
    /\ Len(c_live0) = 3
    /\ Len(live) >= 1

\* the values that n successive calls of pop deliver from storage st and
\* tail t (lines 63-67 of pop, run one call after the other)
RECURSIVE SinglePops(_, _, _)
SinglePops(st, t, n) ==
    IF n = 0 THEN <<>>
    ELSE <<st[BitAnd(t, Mask)]>>
         \o SinglePops([st EXCEPT ![BitAnd(t, Mask)] = NoVal], Wrap(t + 1), n - 1)

\* C7: for every tail position, also when the removed run straddles the end
\* of the storage array, pop_bulk has written to out[0 .. count-1] the values
\* that count successive single pops deliver from the state in which it
\* loaded head, in that order, and they are the oldest live elements.
C7_BulkOrder ==
    (c_pc = "idle" /\ c_ret.op = "pop_bulk")
        => /\ BulkOut(c_ret.n) = SinglePops(c_snap, c_tail_loaded, c_ret.n)
           /\ BulkOut(c_ret.n) = SubSeq(c_live0, 1, c_ret.n)
           /\ \A k \in c_ret.n .. (MaxN - 1) : c_bulk[k] = NoVal
\* the run went over the end of the array: tail mod Capacity + count > Capacity
C7_Witness ==
    /\ c_pc = "idle"
    /\ c_ret.op = "pop_bulk"
    /\ (c_tail_loaded % Capacity) + c_ret.n > Capacity
    /\ c_ret.n = 3

\* the parts of C8, stated below
C8_PeekStep ==
    /\ (c_pc = "peek_check" /\ c_pc' # c_pc /\ c_tail_loaded # head)
         => c_pc' = "peek_copy" /\ storage' = storage /\ tail' = tail /\ head' = head
    /\ (c_pc = "peek_copy" /\ c_pc' # c_pc)
         => /\ c_pc' = "idle" /\ c_ret'.ok /\ c_ret'.op = "peek"
            /\ live # <<>> /\ c_out' = Head(live)
            /\ head' = head /\ tail' = tail /\ storage' = storage /\ live' = live
            /\ storage[c_tail_loaded % Capacity] = c_out'
    /\ (c_pc \in {"pop_store", "try_pop_store"} /\ c_pc' # c_pc /\ c_op # "clear"
          /\ lastPeek # NoVal)
         => /\ Len(received') = Len(received) + 1
            /\ received'[Len(received')] = lastPeek
C8_PeekState ==
    /\ (lastPeek # NoVal /\ c_pc = "idle")
         => live # <<>> /\ Head(live) = lastPeek /\ storage[tail % Capacity] = lastPeek
    /\ (c_pc = "idle" /\ c_ret.op = "peek" /\ c_ret.ok)
         => c_out = lastPeek /\ tail = c_tail_loaded
\* C8: a peek whose test finds the buffer non-empty returns true with the
\* oldest live element in out and changes neither head, tail nor any slot,
\* so the element is still live; as long as nothing is removed, the value
\* peek reported is the oldest live element, and it is the value the next
\* pop or try_pop delivers.
C8_PeekKeeps == [](C8_PeekState) /\ [][C8_PeekStep]_vars
\* a pop that follows a successful peek has moved out the value the peek
\* reported and is about to store tail, with more elements behind it
C8_Witness ==
    /\ c_pc = "pop_store"
    /\ lastPeek # NoVal
    /\ c_out = lastPeek
    /\ Len(live) >= 2

\* where a loop of try_pop calls leaves tail, and the slots it destroys,
\* from tail t and head h (lines 72-80 of try_pop, called until nullopt)
RECURSIVE TryPopLoop(_, _)
TryPopLoop(t, h) ==
    IF t = h THEN <<t, {}>>
    ELSE LET r == TryPopLoop(Wrap(t + 1), h)
         IN <<r[1], r[2] \cup {BitAnd(t, Mask)}>>

\* the parts of C9, stated below
C9_ClearStep ==
    (c_op' = "clear" /\ cvars' # cvars)
        => head' = head /\ received' = received /\ c_bulk' = EmptyBulk
C9_ClearState ==
    (c_pc = "idle" /\ c_ret.op = "clear" /\ head = c_head0)
        => /\ tail = head
           /\ empty
           /\ live = <<>>
           /\ tail = TryPopLoop(c_tail0, c_head0)[1]
           /\ c_touched = TryPopLoop(c_tail0, c_head0)[2]
           /\ \A s \in c_touched : storage[s] = NoVal
           /\ Len(received) = c_rcv0
           /\ ~fault
\* C9: no step of clear() changes head or delivers a value; and when head
\* is what it was when clear() was called (the producer has published
\* nothing), clear() has left what a loop of try_pop until nullopt leaves:
\* tail equals head, empty() is true, each slot that was live has been
\* moved from and destroyed once and holds no object, and nothing has been
\* received.
C9_ClearDrains == [](C9_ClearState) /\ [][C9_ClearStep]_vars
\* clear() has discarded a full buffer whose slots go over the end of the array
C9_Witness ==
    /\ c_pc = "idle"
    /\ c_ret.op = "clear"
    /\ head = c_head0
    /\ Wrap(c_head0 - c_tail0) = Capacity - 1
    /\ (c_tail0 % Capacity) + (Capacity - 1) > Capacity
    /\ Cardinality(c_touched) = Capacity - 1

\* the parts of C10, stated below
C10_Step ==
    /\ (p_pc = "construct" /\ p_pc' = "idle")
         => /\ p_ret' = "threw"
            /\ head' = head /\ head = p_head_loaded
            /\ tail' = tail /\ storage' = storage
            /\ live' = live /\ pushed' = pushed /\ received' = received
            /\ storage[head % Capacity] = NoVal
    /\ (p_pc = "construct" /\ p_pc' = "publish" /\ p_failIdx # NoVal)
         => /\ storage'[p_failIdx] = p_val
            /\ \A s \in Slots \ {p_failIdx} : storage'[s] = storage[s]
C10_State ==
    /\ \A k \in 1 .. Len(received) : received[k] \notin dropped
    /\ \A k \in 1 .. Len(pushed) : pushed[k] \notin dropped
    /\ \A k \in 1 .. Len(live) : live[k] \notin dropped
    /\ p_failIdx # NoVal => head % Capacity = p_failIdx
    /\ (p_pc = "idle" /\ p_ret = "threw")
         => /\ head = p_head_loaded
            /\ Wrap(head - tail) = Len(live)
            /\ c_pc = "idle" =>
                 \A k \in 1 .. Len(live) : storage[(tail + k - 1) % Capacity] = live[k]
\* C10: when the construction fails inside emplace, head has not been
\* advanced and that step changes neither head, tail, a slot nor the live
\* elements; the slot it was to fill holds no object and is the slot the
\* next construction fills; and a value whose construction failed is never
\* pushed, live or received.
C10_ConstructFails == [](C10_State) /\ [][C10_Step]_vars
\* the construction of 1 failed with 0 in the buffer; 2 then went into the
\* slot meant for 1, and the consumer has received 0 and 2
C10_Witness ==
    /\ dropped = {1}
    /\ pushed = <<0, 2>>
    /\ received = <<0, 2>>

\* the most steps a call of op takes when the other thread takes none:
\* the straight-line operations by their statements, pop_bulk and clear
\* with a full buffer of Capacity - 1 elements
StepBound(op) ==
    CASE op = "emplace" -> 4
      [] op = "emplace_bulk" -> 1
      [] op \in {"pop", "try_pop"} -> 5
      [] op = "peek" -> 3
      [] op = "pop_bulk" -> 3 + 2 * (Capacity - 1)
      [] op = "clear" -> 3 + 5 * (Capacity - 1)
      [] op \in ObserverKinds -> 2
      [] op = "capacity" -> 1
      [] OTHER -> 0
\* elements the consumer's call has removed so far
Removed == Wrap(tail - c_tail0)

\* C11 as stated: every public operation, clear included, returns within a
\* number of its own steps that does not depend on the other thread, which
\* is the number it takes when the other thread does nothing.
C11_Original ==
    /\ p_steps <= StepBound(p_op)
    /\ c_steps <= StepBound(c_op)
\* C11, amended: emplace, pop, try_pop, peek and pop_bulk are single bounded
\* attempts that never wait: each returns within a fixed number of the
\* caller's own steps whatever the other thread does, and in every state
\* inside a call the caller has a step it can take.  clear() retries
\* try_pop: it takes 3 + 5k steps, k the number of elements it removes,
\* and k is bounded only by the elements that were live when it was called
\* plus those the producer publishes meanwhile.
C11_BoundedAttempts ==
    /\ p_steps <= StepBound(p_op)
    /\ c_op # "clear" => c_steps <= StepBound(c_op)
    /\ c_op = "pop_bulk" => c_steps <= 3 + 2 * Min(c_max_n, Capacity - 1)
    /\ c_op = "clear" =>
         /\ c_steps <= 5 * (Removed + 1)
         /\ c_pc = "idle" => c_steps = 3 + 5 * Removed
         /\ Removed <= Wrap(c_head0 - c_tail0) + Wrap(head - c_head0)
    /\ p_pc # "idle" => ENABLED Producer
    /\ c_pc # "idle" => ENABLED Consumer
\* clear() has returned after more steps than it takes on a full buffer
\* that the producer leaves alone
C11_Witness ==
    /\ c_op = "clear"
    /\ c_pc = "idle"
    /\ c_steps > StepBound("clear")

\* C12 as stated: emplace_bulk called with a batch that fits in the free
\* space reports success by returning true.
C12_BulkReturnsTrue ==
    (p_pc = "idle" /\ p_op = "emplace_bulk" /\ p_fit) => p_ret = "true"

\* the parts of C16, stated below
C16_Step ==
    (p_op' = "emplace_bulk" /\ pvars' # pvars)
        => /\ p_ret' = "false"
           /\ p_pc' = "idle"
           /\ head' = head /\ tail' = tail /\ storage' = storage
           /\ live' = live /\ pushed' = pushed /\ nextVal' = nextVal
C16_State ==
    p_op = "emplace_bulk" => p_ret = "false" /\ p_pc = "idle" /\ p_steps = 1
ProducerObservers == ObserverKinds \cup {"capacity"}
ConsumerObservers == ObserverKinds \cup {"peek"}
\* the parts of C13, stated below
C13_Step ==
    /\ cvars' # cvars => head' = head
    /\ pvars' # pvars => tail' = tail
    /\ (pvars' # pvars /\ p_op' \in ProducerObservers)
          => head' = head /\ tail' = tail
    /\ (cvars' # cvars /\ c_op' \in ConsumerObservers)
          => head' = head /\ tail' = tail
    /\ head' # head => p_op = "emplace" /\ p_op' = "emplace" /\ cvars' = cvars
    /\ tail' # tail => /\ c_op \in {"pop", "try_pop", "pop_bulk", "clear"}
                       /\ c_op' = c_op
                       /\ pvars' = pvars
\* C13: head is written only by emplace and tail only by pop, try_pop,
\* pop_bulk and clear: every consumer step leaves head unchanged, every
\* producer step leaves tail unchanged, and every step of peek, empty, full,
\* size and capacity leaves both unchanged.
C13_SingleWriter == [][C13_Step]_vars
\* the producer has published, the consumer has removed elements and has
\* then peeked at a live element, and the producer has just read size
C13_Witness ==
    /\ c_op = "peek" /\ c_pc = "idle" /\ c_ret.ok
    /\ p_op = "size" /\ p_pc = "idle" /\ p_obs > 0
    /\ Len(received) > 1
    /\ Len(pushed) > Len(received)

\* the consumer's next step reads (moves or copies from) a slot
ReadPcs == {"pop_move", "try_pop_move", "peek_copy", "pop_bulk_move1", "pop_bulk_move2"}
\* the consumer's next step destroys the object in a slot
DestroyPcs == {"pop_destroy", "try_pop_destroy", "pop_bulk_destroy1", "pop_bulk_destroy2"}
\* the slot the consumer's next step accesses
ConsumerSlot ==
    CASE c_pc \in {"pop_bulk_move1", "pop_bulk_destroy1"} -> SlotIndex(c_tail_loaded) + c_i
      [] c_pc \in {"pop_bulk_move2", "pop_bulk_destroy2"} -> c_i - c_first
      [] OTHER -> SlotIndex(c_tail_loaded)
\* the parts of C14, stated below
C14_Step ==
    head' # head => /\ head' = Wrap(head + 1)
                    /\ p_val \in Values
                    /\ storage[SlotIndex(head)] = p_val
                    /\ storage' = storage
C14_State ==
    /\ c_pc \in ReadPcs => ConsumerSlot \in Slots /\ storage[ConsumerSlot] \in Values
    /\ c_pc \in DestroyPcs => ConsumerSlot \in Slots /\ storage[ConsumerSlot] = MovedFrom
    /\ \A k \in 0 .. Capacity - 1 :
         k < Wrap(head - tail)
            => \/ storage[SlotIndex(Wrap(tail + k))] \in Values
               \/ c_pc # "idle" /\ SlotIndex(Wrap(tail + k)) \in c_touched
    /\ c_op \in {"pop", "try_pop", "peek"} /\ c_out # NoVal => c_out = c_live0[1]
\* C14: emplace stores the new head only after the element has been
\* constructed in slot head mod Capacity, so under any interleaving every
\* slot that pop, try_pop, peek or pop_bulk reads holds a completely
\* constructed element, and every slot they destroy holds the object they
\* have just moved from: no unconstructed or destroyed slot is accessed.
C14_PublishAfterConstruct == [](C14_State) /\ [][C14_Step]_vars
\* pop_bulk is between its move-out and its destroy of a slot while the
\* producer has constructed the next element and not yet stored head
C14_Witness ==
    /\ c_pc = "pop_bulk_destroy1"
    /\ p_pc = "publish"
    /\ storage[SlotIndex(p_head_loaded)] = p_val
    /\ Len(live) >= 2

\* the slots the running consumer call has still to read or destroy
ConsumerPending ==
    IF c_pc \in {"pop_bulk_move1", "pop_bulk_destroy1", "pop_bulk_move2",
                 "pop_bulk_destroy2"}
      THEN {SlotIndex(Wrap(c_tail_loaded + k)) : k \in c_i .. c_to_pop - 1}
      ELSE IF c_pc \in ReadPcs \cup DestroyPcs THEN {SlotIndex(c_tail_loaded)}
      ELSE {}
\* the producer is about to construct into a slot, or has constructed into
\* it and not yet stored head
ProducerInSlot == p_pc \in {"construct", "publish"}
\* the parts of C15, stated below
C15_Step ==
    /\ tail' # tail
         => /\ storage' = storage
            /\ Wrap(tail' - tail) \in 1 .. Capacity - 1
            /\ \A k \in 0 .. Capacity - 1 :
                 k < Wrap(tail' - tail) => storage[SlotIndex(Wrap(tail + k))] = NoVal
    /\ (pvars' # pvars /\ storage' # storage)
         => /\ storage[SlotIndex(p_head_loaded)] = NoVal
            /\ SlotIndex(p_head_loaded) \notin ConsumerPending
C15_State ==
    /\ p_pc = "construct" => storage[SlotIndex(p_head_loaded)] = NoVal
    /\ ProducerInSlot => SlotIndex(p_head_loaded) \notin ConsumerPending
    /\ ProducerInSlot => \A k \in 0 .. Capacity - 1 :
                            k < Wrap(head - tail)
                               => SlotIndex(Wrap(tail + k)) # SlotIndex(p_head_loaded)
\* C15: pop, try_pop and pop_bulk store the new tail only after every slot
\* the call removes has been moved out and destroyed, so under any
\* interleaving the producer constructs only into a slot that holds no
\* object, and the slot the producer is constructing into is never one the
\* consumer is reading, destroying or has still to read in its current call.
C15_ReclaimAfterDestroy == [](C15_State) /\ [][C15_Step]_vars
\* the producer is about to construct into a slot that was used before while
\* pop_bulk, which removes two or more elements, is between its accesses
C15_Witness ==
    /\ p_pc = "construct"
    /\ c_pc = "pop_bulk_destroy1"
    /\ c_to_pop >= 2
    /\ Len(pushed) >= Capacity

\* pop(out) and try_pop()
SinglePopOps == {"pop", "try_pop"}
\* what removing one element does, written once for both operations: the
\* step that stores tail, taken by a call that found tail_loaded # head
RemoveOneStep(op) ==
    (c_op = op /\ tail' # tail)
       => /\ tail' = Wrap(c_tail0 + 1)
          /\ tail = c_tail0
          /\ head' = head
          /\ c_out = c_snap[SlotIndex(c_tail0)]
          /\ c_out = c_live0[1]
          /\ storage[SlotIndex(c_tail0)] = NoVal
          /\ storage' = storage
          /\ received' = Append(received, c_out)
          /\ live' = Tail(live)
          /\ c_ret' = [op |-> op, ok |-> TRUE, n |-> 1]
          /\ c_pc' = "idle"
          /\ c_steps' = 5
\* every step of the call leaves head and every other slot alone
RemoveOneFrame(op) ==
    (c_op' = op /\ cvars' # cvars)
       => /\ head' = head
          /\ \A s \in Slots : s # SlotIndex(c_tail_loaded') => storage'[s] = storage[s]
\* a call that finds the buffer non-empty succeeds
RemoveOneSucceeds(op) ==
    /\ (c_op = op /\ c_pc = "idle" /\ Len(c_live0) > 0) => c_ret = [op |-> op, ok |-> TRUE, n |-> 1]
    /\ (c_op = op /\ c_pc = "idle" /\ c_ret.ok)
          => /\ tail = Wrap(c_tail0 + 1)
             /\ c_out = c_live0[1]
             /\ Len(received) = c_rcv0 + 1
             /\ received[Len(received)] = c_out
\* C17: from the same non-empty state pop(out) and try_pop() do the same:
\* both succeed, deliver the element at slot tail mod Capacity, destroy that
\* slot, advance tail by exactly 1 and leave head and the other slots
\* unchanged, so that the buffer states they produce are identical.
C17_PopEquivalence ==
    /\ [](\A op \in SinglePopOps : RemoveOneSucceeds(op))
    /\ [][\A op \in SinglePopOps : RemoveOneStep(op) /\ RemoveOneFrame(op)]_vars
\* try_pop has returned an element that pop returns from the same state: the
\* oldest of two live elements, while the producer was publishing another
C17_Witness ==
    /\ c_op = "try_pop" /\ c_pc = "idle" /\ c_ret.ok
    /\ Len(c_live0) = 2
    /\ c_out = c_live0[1]
    /\ head # c_head0

\* the value both counters had when the run started: head has advanced
\* once for every value pushed
HeadStart == Wrap(head - Len(pushed))
\* the counter has passed CounterMod - 1 and started again from 0
HeadOverflowed == head < HeadStart
TailOverflowed == tail < HeadStart
\* the parts of C18, stated below
C18_State ==
    /\ HeadStart \in Starts
    /\ tail = Wrap(HeadStart + Len(received))
    /\ HeadOverflowed
         => /\ Wrap(head - tail) = Len(live)
            /\ received \o live = pushed
            /\ Quiescent => /\ empty <=> live = <<>>
                            /\ full <=> Len(live) = Capacity - 1
                            /\ \A k \in 1 .. Len(live) :
                                 storage[SlotIndex(Wrap(tail + k - 1))] = live[k]
C18_Step ==
    /\ head' # head => /\ head' = Wrap(head + 1)
                       /\ SlotIndex(head') = (SlotIndex(head) + 1) % Capacity
    /\ tail' # tail => /\ tail' = Wrap(tail + 1)
                       /\ SlotIndex(tail') = (SlotIndex(tail) + 1) % Capacity
    /\ (HeadOverflowed /\ p_pc = "check" /\ p_pc' # "check")
         => (p_pc' = "idle" <=> Len(live) = Capacity - 1)
    /\ (HeadOverflowed /\ c_pc \in {"pop_check", "try_pop_check"} /\ c_pc' # c_pc)
         => (c_pc' = "idle" <=> live = <<>>)
\* C18: with w-bit counters and Capacity a power of two dividing 2^w, after
\* head, and later tail, has overflowed from 2^w - 1 to 0, (head - tail) mod
\* 2^w is still the number of live elements, the full and empty tests of
\* emplace, pop, try_pop, full() and empty() still answer correctly,
\* counter & Mask goes on to the next slot of the cycle, and the values
\* received followed by the live ones are the values pushed, in order.
C18_CounterOverflow == [](C18_State) /\ [][C18_Step]_vars
\* both counters have overflowed, the consumer having received values
\* meanwhile, and the buffer has filled up again
C18_Witness ==
    /\ HeadStart = CounterMod - 2
    /\ HeadOverflowed /\ TailOverflowed
    /\ Len(received) >= 2
    /\ Len(live) = Capacity - 1
    /\ Quiescent /\ full

\* the parts of C19, stated below
C19_Step ==
    /\ (p_saw /\ p_pc = "check" /\ p_pc' # "check") => p_pc' = "construct"
    /\ (c_saw /\ c_pc \in {"pop_check", "try_pop_check"} /\ c_pc' # c_pc)
          => c_pc' \in {"pop_move", "try_pop_move"}
    /\ (p_pc = "observe" /\ p_pc' = "idle" /\ p_op = "size")
          => p_obs' >= Len(live') /\ p_obs' \in 0 .. Capacity - 1
    /\ (c_pc = "observe" /\ c_pc' = "idle" /\ c_op = "size")
          => c_obs' <= Len(live') /\ c_obs' \in 0 .. Capacity - 1
C19_State ==
    /\ (p_saw /\ p_op = "emplace" /\ p_pc = "idle") => p_ret \in {"true", "threw"}
    /\ (p_saw /\ p_op = "emplace" /\ p_pc = "idle" /\ p_ret = "true")
          => Len(pushed) > 0 /\ pushed[Len(pushed)] = p_val
    /\ (c_saw /\ c_op \in SinglePopOps /\ c_pc = "idle")
          => c_ret = [op |-> c_op, ok |-> TRUE, n |-> 1]
    /\ (p_pc = "idle" /\ p_op = "full" /\ p_obs = 0) => Len(live) < Capacity - 1
    /\ (c_pc = "idle" /\ c_op = "empty" /\ c_obs = 0) => Len(live) > 0
    /\ (p_pc = "idle" /\ p_op = "size")
          => p_obs >= Len(live) /\ p_obs \in 0 .. Capacity - 1
    /\ (c_pc = "idle" /\ c_op = "size")
          => c_obs <= Len(live) /\ c_obs \in 0 .. Capacity - 1
\* C19: under any interleaving with the other thread, and whichever of head
\* and tail the observer loads first, a producer that has seen full() return
\* false is not refused by its next emplace (which returns true once the
\* element is constructed), and a consumer that has seen empty() return
\* false succeeds with its next pop or try_pop; size() read by the producer
\* is at least, and size() read by the consumer at most, the number of live
\* elements when the call returns, and it lies in 0 .. Capacity - 1.
C19_Conservative == [](C19_State) /\ [][C19_Step]_vars
\* the producer read size() across a removal, so that its result is larger
\* than the number of live elements, after the consumer's pop succeeded on
\* the strength of empty() == false
C19_Witness ==
    /\ p_pc = "idle" /\ p_op = "size" /\ p_obs > Len(live)
    /\ c_saw /\ c_op = "pop" /\ c_pc = "idle" /\ c_ret.ok

\* both loops of main.cpp have terminated
LoopsDone == ProducerDone /\ c_pc = "idle" /\ Len(received) = MaxPush
\* C20: with a producer retrying emplace until MaxPush values are pushed and
\* a consumer retrying pop until it has received MaxPush values, under weak
\* fairness of both threads both loops terminate and the consumer has then
\* received every value pushed; every refused emplace is followed by an
\* accepted one and every failed pop of the loop by a successful one; and
\* in no state do the full test of emplace and the empty test of pop both
\* hold.
C20_Progress ==
    /\ <>[](LoopsDone /\ received = pushed)
    /\ (p_pc = "idle" /\ p_ret = "false") ~> (p_ret = "true")
    /\ (c_pc = "idle" /\ c_op = "pop" /\ ~c_ret.ok /\ Len(received) < MaxPush)
          ~> (c_pc = "idle" /\ c_ret.ok)
    /\ [](~(FullTest(Wrap(head + 1), tail) /\ EmptyTest(tail, head)))
\* the last call of each thread failed: the consumer found the buffer empty,
\* then the producer filled it and was refused
C20_Witness ==
    /\ p_pc = "idle" /\ p_ret = "false"
    /\ c_pc = "idle" /\ c_op = "pop" /\ ~c_ret.ok
    /\ Len(live) = Capacity - 1
    /\ Len(received) > 0
====
